---- MODULE Spec2Model ----
(***************************************************************************)
(* The resumable chunked upload service (server/uploadService.ts) as a     *)
(* state machine.  Every async method is a call that occupies a slot; each *)
(* `await` of an I/O operation is one step: the I/O takes effect (or       *)
(* fails) and the code that follows runs up to the next `await`.  Between  *)
(* two steps of one call the steps of the other calls may run, as on the   *)
(* Node.js event loop.                                                     *)
(***************************************************************************)
EXTENDS Integers, Sequences, FiniteSets, TLC

\* ------------------------------------------------------------------ bounds
MaxSessions == 1        \* initializeUpload calls that create a session
MaxSessionsIsolation == 2  \* the same, where two sessions run side by side
MaxInflight == 2        \* HTTP calls in flight at once
MaxChunkCalls == 2      \* uploadChunk calls admitted over a run
MaxChunks == 2          \* largest declared totalChunks
MaxTicks == 1           \* clock advances over a run
MaxOutInits == 2        \* initialize*Upload calls over a run
MaxOutInflight == 2     \* adapter calls in flight at once
MaxOutChunks == 3       \* chunks of the larger outbound file
MaxOutCalls == 4        \* adapter calls (initialize, chunk, finalize) over a run

\* ------------------------------------------------------- program constants
\* Sizes are counted in blocks of 1 KiB (a payload <<1>> is one block), so that
\* a size above MAX_FILE_SIZE is a machine integer of TLC.
MAX_FILE_SIZE == 2 * 1024 * 1024
UPLOAD_TIMEOUT == 30 * 60 * 1000
\* the clock advances in steps of 31 minutes (milliseconds, as Date.now()):
\* one step takes an untouched session past UPLOAD_TIMEOUT
TickMs == 31 * 60 * 1000

\* parseInt of a chunkNumber that is no number: NaN, kept apart from every index
NaN == -1000

UnknownId == 0                       \* an uploadId no initializeUpload returned
\* the uuids initializeUpload hands out
Ids == 1..(IF MaxSessions > MaxSessionsIsolation
           THEN MaxSessions ELSE MaxSessionsIsolation)
AllIds == {UnknownId} \cup Ids
Slots == 1..MaxInflight
\* req.body.chunkNumber after parseInt; MaxChunks - 1 is out of range for the
\* sessions of fewer chunks
ChunkNums == {NaN, -1} \cup (0..(MaxChunks - 1))
Payloads == {<<1>>, <<2, 2>>}        \* req.file.buffer
IoOutcomes == {"ok", "fail"}         \* an fs / storage promise resolves or rejects
\* req.body of initializeUpload: a field missing ("" or 0), an extension that is
\* not allowed, a size above the maximum, and the requests that pass, one of
\* them with a totalSize that is no number (parseInt gives NaN)
InitReq(f, ts, tc) == [filename |-> f, totalSize |-> ts, totalChunks |-> tc]
InitRequests ==
  {InitReq("", 3, 1), InitReq("clip.mp4", 0, 1), InitReq("clip.mp4", 3, 0),
   InitReq("clip.exe", 3, 1), InitReq("clip.mp4", MAX_FILE_SIZE + 1, 1)}
  \cup {InitReq("clip.mp4", 3, tc) : tc \in 1..MaxChunks}
  \cup {InitReq("clip.mp4", NaN, 1)}

VARIABLES
  now,             \* Date.now() / new Date()
  nextId,          \* the next uuid uuidv4() returns
  known,           \* uploadIds a client has been told (init responded)
  activeUploads,   \* keys of the activeUploads map
  chunkInfo,       \* the ChunkInfo object of each uploadId
  uploadProgress,  \* the UploadProgress object of each uploadId
  dirs,            \* uploadIds whose uploads/<id> directory exists
  chunkFiles,      \* per uploadId: chunk number -> content of chunk_<n>
  finalFile,       \* uploadId -> content of uploads/<id>/<filename>
  storageUploads,  \* per uploadId: fileSize of every storage.createUpload record
  calls,           \* the call in each slot, with its position and locals
  reaper,          \* the cleanupStaleUploads run in progress
  lastResp,        \* the HTTP response the last step sent, if it sent one
  chunkCalls,      \* uploadChunk calls admitted so far
  ticks,           \* clock advances so far
  finalizeStarts,  \* history: finalizeUpload invocations per uploadId
  acceptedSet,     \* history: (chunkNumber, bytes) pairs accepted per uploadId
  cancelReturned,  \* history: sessions a cancelUpload has returned for
  uploadSessions,  \* ChunkedUploadHelpers: the UploadSession of each session id
  nextSession,     \* the next session id initialize*Upload makes up
  outCalls,        \* the adapter call in each slot, with its position and locals
  remoteNext,      \* the remote of INIT/APPEND/FINALIZE: next segment it accepts
  outResult,       \* what the last step returned (or threw) to the caller
  outCount         \* adapter calls started so far

svc == <<activeUploads, chunkInfo, uploadProgress>>
disk == <<dirs, chunkFiles, finalFile>>
hist == <<finalizeStarts, acceptedSet, cancelReturned>>
\* the state of the inbound service (uploadService.ts) and of the outbound
\* adapters (ChunkedUploadHelpers of ctaService.ts)
inbound == <<now, nextId, known, activeUploads, chunkInfo, uploadProgress,
             dirs, chunkFiles, finalFile, storageUploads, calls, reaper,
             lastResp, chunkCalls, ticks, finalizeStarts, acceptedSet,
             cancelReturned>>
outbound == <<uploadSessions, nextSession, outCalls, remoteNext, outResult,
              outCount>>
vars == <<now, nextId, known, activeUploads, chunkInfo, uploadProgress, dirs,
          chunkFiles, finalFile, storageUploads, calls, reaper, lastResp,
          chunkCalls, ticks, finalizeStarts, acceptedSet, cancelReturned,
          uploadSessions, nextSession, outCalls, remoteNext, outResult,
          outCount>>

\* ------------------------------------------------------------------ values
NoInfo == [exists |-> FALSE, totalChunks |-> 0, totalSize |-> 0,
           uploadedChunks |-> {}, lastActivity |-> 0]
NoProgress == [exists |-> FALSE, bytesUploaded |-> 0, totalBytes |-> 0,
               progress |-> <<0, 1>>, eta |-> 0, status |-> "none",
               error |-> "", startTime |-> 0]
\* a call; cancelled is history: a cancelUpload of the call's uploadId began
\* while the call was suspended in finalizeUpload
Idle == [op |-> "idle", pc |-> "", id |-> 0, n |-> 0, data |-> <<>>,
         i |-> 0, pos |-> 0, buf |-> <<>>, cancelled |-> FALSE]
ReaperIdle == [pc |-> "idle", id |-> 0, cutoff |-> 0]

\* ------------------------------------------------- outbound adapter values
\* this.CHUNK_SIZE = 256 MB, in blocks of 1 KiB
CHUNK_SIZE == 256 * 1024
Platforms == {"youtube", "twitter", "tiktok"}
UnknownSession == 0                  \* a sessionId no initialize call returned
OutIds == 1..MaxOutInits             \* the session ids initialize*Upload makes up
AllOutIds == {UnknownSession} \cup OutIds
OutSlots == 1..MaxOutInflight
\* fs.statSync(filePath).size: a file of one chunk and a file of MaxOutChunks
\* chunks, the last of one block
OutFileSizes == {CHUNK_SIZE, (MaxOutChunks - 1) * CHUNK_SIZE + 1}
\* the chunkIndex argument: below, inside and just past the chunk list
\* file sizes around the chunk boundaries, the empty file included
PlanFileSizes ==
  {0, CHUNK_SIZE - 1, CHUNK_SIZE, CHUNK_SIZE + 1,
   (MaxOutChunks - 1) * CHUNK_SIZE, (MaxOutChunks - 1) * CHUNK_SIZE + 1}
OutIndices == (-1)..MaxOutChunks
TokenOutcomes == {"token", "null"}   \* getValidToken resolves to a token or null
\* response.status of a fetch; 0 stands for a fetch that rejects
NetworkError == 0
HttpStatuses == {NetworkError, 200, 201, 308, 400}
\* the userIds the callers pass to initialize*Upload
UserIds == {"user1"}
\* a session object; owner is history: the userId its initialize call was
\* given (the object has no field for it)
NoSession == [exists |-> FALSE, platform |-> "", fileSize |-> 0,
              chunks |-> <<>>, status |-> "none", owner |-> ""]
\* a call; tokenUser is the userId it passes to getValidToken
OutIdle == [op |-> "idle", pc |-> "", accessToken |-> "", platform |-> "",
            tokenUser |-> "",
            sid |-> 0, index |-> 0, fileSize |-> 0, requests |-> 0,
            segment |-> -1]
\* what a call returns or throws, with the number of requests it sent
OutError(op, sid, kind, requests, error) ==
  [op |-> op, sid |-> sid, kind |-> kind, requests |-> requests,
   error |-> error]
OutResult(op, sid, kind, requests) == OutError(op, sid, kind, requests, "")
NoResult == OutResult("none", 0, "none", 0)
Resp(op, id, code) == [op |-> op, id |-> id, code |-> code]
NoResp == Resp("none", 0, 0)
\* a response with the JSON object res.json sends
RespBody(op, id, code, body) == [op |-> op, id |-> id, code |-> code, body |-> body]

Min(S) == CHOOSE x \in S : \A y \in S : x <= y
IdleSlots == {s \in Slots : calls[s].op = "idle"}
\* a new call takes the first free slot
FreeSlot(s) == IdleSlots # {} /\ s = Min(IdleSlots)

Zeros(k) == [j \in 1..k |-> 0]
\* FileHandle.write(buf) at the descriptor's own position
WriteAt(content, pos, buf) ==
  LET base == IF Len(content) < pos
              THEN content \o Zeros(pos - Len(content)) ELSE content
      end == pos + Len(buf)
  IN [j \in 1..(IF Len(base) > end THEN Len(base) ELSE end) |->
        IF j > pos /\ j <= end THEN buf[j - pos] ELSE base[j]]

\* ------------------------------------------------------- progress and ETA
\* (bytesUploaded / totalBytes) * 100, kept as the fraction <<num, den>>; NaN
\* when totalBytes is NaN
ProgressOf(bytes, total) ==
  IF total = NaN THEN <<NaN, 1>> ELSE <<bytes * 100, total>>

\* Math.round(x) for x = p / q, q > 0: the nearest integer, halves upwards
RoundDiv(p, q) == (2 * p + q) \div (2 * q)

\* rate = bytes / elapsed; eta = rate > 0 ? Math.round(remaining / rate) : 0
\* bytes = 0 gives rate 0 or NaN (0 / 0), and a negative elapsed a negative
\* rate: eta 0.  Else rate > 0: a totalBytes of NaN makes remaining and eta NaN;
\* elapsed = 0 gives rate = Infinity and remaining / rate = 0.
EtaOf(bytes, total, elapsed) ==
  IF bytes <= 0 \/ elapsed < 0 THEN 0
  ELSE IF total = NaN THEN NaN
  ELSE IF elapsed = 0 THEN 0
  ELSE RoundDiv((total - bytes) * elapsed, bytes)

\* ------------------------------------------------------------ validation
validateFileType(filename) == filename = "clip.mp4"
\* a size check that lets every size pass
validateFileSizeAny(size) == TRUE

validateFileSize(size) == ~(size > MAX_FILE_SIZE)

Init ==
  /\ now = 0
  /\ nextId = 1
  /\ known = {}
  /\ activeUploads = {}
  /\ chunkInfo = [id \in AllIds |-> NoInfo]
  /\ uploadProgress = [id \in AllIds |-> NoProgress]
  /\ dirs = {}
  /\ chunkFiles = [id \in AllIds |-> <<>>]
  /\ finalFile = <<>>
  /\ storageUploads = [id \in AllIds |-> <<>>]
  /\ calls = [s \in Slots |-> Idle]
  /\ reaper = ReaperIdle
  /\ lastResp = NoResp
  /\ chunkCalls = 0
  /\ ticks = 0
  /\ finalizeStarts = [id \in AllIds |-> 0]
  /\ acceptedSet = [id \in AllIds |-> {}]
  /\ cancelReturned = {}
  /\ uploadSessions = [sid \in AllOutIds |-> NoSession]
  /\ nextSession = 1
  /\ outCalls = [s \in OutSlots |-> OutIdle]
  /\ remoteNext = [sid \in AllOutIds |-> 0]
  /\ outResult = NoResult
  /\ outCount = 0

\* ------------------------------------------------------- initializeUpload
initializeUploadBegin(s, filename, totalSize, totalChunks) ==
  /\ FreeSlot(s)
  /\ IF filename = "" \/ totalSize = 0 \/ totalChunks = 0
        \/ ~validateFileType(filename) \/ ~validateFileSize(totalSize)
     THEN /\ lastResp' = Resp("initializeUpload", UnknownId, 400)
          /\ UNCHANGED <<nextId, svc, calls>>
     ELSE /\ nextId \in Ids
          /\ nextId' = nextId + 1
          /\ activeUploads' = activeUploads \cup {nextId}
          /\ chunkInfo' = [chunkInfo EXCEPT ![nextId] =
               [exists |-> TRUE, totalChunks |-> totalChunks,
                totalSize |-> totalSize, uploadedChunks |-> {},
                lastActivity |-> now]]
          /\ uploadProgress' = [uploadProgress EXCEPT ![nextId] =
               [exists |-> TRUE, bytesUploaded |-> 0, totalBytes |-> totalSize,
                progress |-> <<0, 1>>, eta |-> 0, status |-> "uploading",
                error |-> "", startTime |-> now]]
          /\ calls' = [calls EXCEPT ![s] =
               [Idle EXCEPT !.op = "initializeUpload", !.pc = "mkdir",
                            !.id = nextId]]
          /\ lastResp' = NoResp
  /\ UNCHANGED <<outbound, now, known, disk, storageUploads, reaper, chunkCalls, ticks, hist>>

initializeUploadMkdir(s, io) ==
  /\ calls[s].op = "initializeUpload" /\ calls[s].pc = "mkdir"
  /\ LET id == calls[s].id IN
     IF io = "ok"
     THEN /\ dirs' = dirs \cup {id}
          /\ known' = known \cup {id}
          /\ lastResp' = Resp("initializeUpload", id, 200)
     ELSE /\ lastResp' = Resp("initializeUpload", id, 500)
          /\ UNCHANGED <<dirs, known>>
  /\ calls' = [calls EXCEPT ![s] = Idle]
  /\ UNCHANGED <<outbound, now, nextId, svc, chunkFiles, finalFile, storageUploads,
                 reaper, chunkCalls, ticks, hist>>

\* ---------------------------------------------------------- finalizeUpload
\* a catch block that only logs
finalizeCatchLogOnly(prog) == prog

\* the catch block of finalizeUpload: uploadProgress.get(uploadId) is marked
finalizeCatch(prog) == [prog EXCEPT !.status = "error",
                                    !.error = "Failed to finalize upload"]

\* the last lines of the try block, after storage.createUpload resolved
finalizeDone(prog) == [prog EXCEPT !.status = "completed",
                                   !.progress = <<100, 1>>, !.eta = 0]

\* the object of res.json at the end of uploadChunk, read from the ChunkInfo and
\* the UploadProgress the call holds
uploadChunkBody(info, prog) ==
  [success |-> TRUE, uploadedChunks |-> Cardinality(info.uploadedChunks),
   totalChunks |-> info.totalChunks, progress |-> prog.progress,
   eta |-> prog.eta]

\* finalizeUpload returned (resolved either way), or was not called: uploadChunk
\* sends res.json
uploadChunkRespond(s, info, prog) ==
  /\ calls' = [calls EXCEPT ![s] = Idle]
  /\ lastResp' = RespBody("uploadChunk", calls[s].id, 200,
                          uploadChunkBody(info, prog))

\* finalizeUpload threw inside its try: the catch runs, the call returns
finalizeFail(s) ==
  LET id == calls[s].id IN
  /\ uploadProgress' = [uploadProgress EXCEPT ![id] = finalizeCatch(@)]
  /\ uploadChunkRespond(s, chunkInfo[id], finalizeCatch(uploadProgress[id]))

\* the head of the for loop: the next readFile, or close after the last chunk
finalizeLoop(s, i) ==
  calls' = [calls EXCEPT ![s] =
    [@ EXCEPT !.i = i, !.buf = <<>>,
              !.pc = IF i < chunkInfo[calls[s].id].totalChunks
                     THEN "readFile" ELSE "close"]]

\* ------------------------------------------------------------- uploadChunk
\* a session that is looked up and left as it is
keepLastActivity(info) == info

\* "Update last activity": chunkInfo.lastActivity = new Date()
updateLastActivity(info) == [info EXCEPT !.lastActivity = now]

\* a lookup that takes the progress record for the session
sessionFoundInProgress(id) == uploadProgress[id].exists

\* this.activeUploads.get(uploadId) is defined
sessionFound(id) == id \in activeUploads

\* up to `await fs.writeFile`
uploadChunkBegin(s, id, n, hasFile, data) ==
  /\ FreeSlot(s)
  /\ IF ~hasFile
     THEN /\ lastResp' = Resp("uploadChunk", id, 400)
          /\ UNCHANGED <<chunkInfo, calls, chunkCalls>>
     ELSE IF ~sessionFound(id)
     THEN /\ lastResp' = Resp("uploadChunk", id, 404)
          /\ UNCHANGED <<chunkInfo, calls, chunkCalls>>
     ELSE /\ chunkCalls < MaxChunkCalls
          /\ chunkCalls' = chunkCalls + 1
          /\ chunkInfo' = [chunkInfo EXCEPT ![id] = updateLastActivity(@)]
          /\ calls' = [calls EXCEPT ![s] =
               [Idle EXCEPT !.op = "uploadChunk", !.pc = "writeFile",
                            !.id = id, !.n = n, !.data = data]]
          /\ lastResp' = NoResp
  /\ UNCHANGED <<outbound, now, nextId, known, activeUploads, uploadProgress, disk,
                 storageUploads, reaper, ticks, hist>>

\* a byte counter that is set to the size of the chunk just written
progressAfterChunkLastOnly(prog, len) ==
  [prog EXCEPT !.bytesUploaded = len,
               !.progress = ProgressOf(len, prog.totalBytes),
               !.eta = EtaOf(len, prog.totalBytes, now - prog.startTime)]

\* the bookkeeping after the write: the set, the byte counter, progress, eta
progressAfterChunk(prog, len) ==
  LET bytes == prog.bytesUploaded + len IN
  [prog EXCEPT !.bytesUploaded = bytes,
               !.progress = ProgressOf(bytes, prog.totalBytes),
               !.eta = EtaOf(bytes, prog.totalBytes, now - prog.startTime)]

\* complete as soon as the last index has arrived
uploadCompleteOnLastIndex(info) ==
  (info.totalChunks - 1) \in info.uploadedChunks

\* "Check if upload is complete"
uploadComplete(info) == Cardinality(info.uploadedChunks) = info.totalChunks

\* a writeFile whose rejection is not noticed
writeFileRejectsNever(io, id) == FALSE

\* a writeFile that creates the missing directories of its path
writeFileRejectsOnIoOnly(io, id) == io = "fail"

\* fs.writeFile(chunkPath, ...) rejects: an I/O error, or ENOENT when the
\* directory uploads/<id> does not exist
writeFileRejects(io, id) == io = "fail" \/ id \notin dirs

\* fs.writeFile settles; then lines 173-198, with the start of finalizeUpload
\* (up to `await fs.open`) when the set is complete
uploadChunkWrite(s, io) ==
  /\ calls[s].op = "uploadChunk" /\ calls[s].pc = "writeFile"
  /\ LET id == calls[s].id
         n == calls[s].n
         data == calls[s].data
     IN
     IF writeFileRejects(io, id)
     THEN \* writeFile rejected: the outer catch answers 500
          /\ calls' = [calls EXCEPT ![s] = Idle]
          /\ lastResp' = Resp("uploadChunk", id, 500)
          /\ UNCHANGED <<svc, disk, hist>>
     ELSE LET info == [chunkInfo[id] EXCEPT
                         !.uploadedChunks = @ \cup {n}]
              prog == progressAfterChunk(uploadProgress[id], Len(data))
          IN
          /\ chunkFiles' = [chunkFiles EXCEPT ![id] =
                 [m \in (DOMAIN @) \cup {n} |-> IF m = n THEN data ELSE @[m]]]
          /\ chunkInfo' = [chunkInfo EXCEPT ![id] = info]
          /\ acceptedSet' = [acceptedSet EXCEPT ![id] = @ \cup {<<n, data>>}]
          /\ UNCHANGED <<activeUploads, dirs, finalFile, cancelReturned>>
          /\ IF uploadComplete(info)
             THEN /\ finalizeStarts' = [finalizeStarts EXCEPT ![id] = @ + 1]
                  /\ IF id \notin activeUploads
                     THEN \* activeUploads.get is undefined: chunkInfo.filename throws
                          /\ uploadProgress' = [uploadProgress EXCEPT ![id] =
                                                  finalizeCatch(prog)]
                          /\ uploadChunkRespond(s, info, finalizeCatch(prog))
                     ELSE /\ uploadProgress' = [uploadProgress EXCEPT ![id] =
                                 [prog EXCEPT !.status = "processing"]]
                          /\ calls' = [calls EXCEPT ![s] =
                               [Idle EXCEPT !.op = "uploadChunk", !.pc = "open",
                                            !.id = id]]
                          /\ lastResp' = NoResp
             ELSE /\ uploadProgress' = [uploadProgress EXCEPT ![id] = prog]
                  /\ uploadChunkRespond(s, info, prog)
                  /\ UNCHANGED finalizeStarts
  /\ UNCHANGED <<outbound, now, nextId, known, storageUploads, reaper, chunkCalls, ticks>>

\* fs.open(finalPath, 'w') settles
finalizeOpen(s, io) ==
  /\ calls[s].op = "uploadChunk" /\ calls[s].pc = "open"
  /\ LET id == calls[s].id IN
     IF io = "fail" \/ id \notin dirs
     THEN finalizeFail(s) /\ UNCHANGED finalFile
     ELSE /\ finalFile' = [m \in (DOMAIN finalFile) \cup {id} |->
                             IF m = id THEN <<>> ELSE finalFile[m]]
          /\ finalizeLoop(s, 0)
          /\ UNCHANGED uploadProgress
          /\ lastResp' = NoResp
  /\ UNCHANGED <<outbound, now, nextId, known, activeUploads, chunkInfo, dirs, chunkFiles,
                 storageUploads, reaper, chunkCalls, ticks, hist>>

\* fs.readFile(chunkPath) settles
finalizeRead(s, io) ==
  /\ calls[s].op = "uploadChunk" /\ calls[s].pc = "readFile"
  /\ LET id == calls[s].id
         i == calls[s].i
     IN
     IF io = "fail" \/ i \notin DOMAIN chunkFiles[id]
     THEN finalizeFail(s)
     ELSE /\ calls' = [calls EXCEPT ![s] =
                 [@ EXCEPT !.buf = chunkFiles[id][i], !.pc = "write"]]
          /\ UNCHANGED uploadProgress
          /\ lastResp' = NoResp
  /\ UNCHANGED <<outbound, now, nextId, known, activeUploads, chunkInfo, disk,
                 storageUploads, reaper, chunkCalls, ticks, hist>>

\* writeStream.write(chunkData) settles: the bytes land at the handle's position
\* (in a file no longer linked when the directory was removed meanwhile)
finalizeWrite(s, io) ==
  /\ calls[s].op = "uploadChunk" /\ calls[s].pc = "write"
  /\ LET id == calls[s].id IN
     IF io = "fail"
     THEN finalizeFail(s) /\ UNCHANGED finalFile
     ELSE /\ finalFile' = IF id \in DOMAIN finalFile
                          THEN [finalFile EXCEPT ![id] =
                                  WriteAt(@, calls[s].pos, calls[s].buf)]
                          ELSE finalFile
          /\ calls' = [calls EXCEPT ![s] =
               [@ EXCEPT !.pos = @ + Len(calls[s].buf), !.buf = <<>>,
                         !.pc = "unlink"]]
          /\ UNCHANGED uploadProgress
          /\ lastResp' = NoResp
  /\ UNCHANGED <<outbound, now, nextId, known, activeUploads, chunkInfo, dirs, chunkFiles,
                 storageUploads, reaper, chunkCalls, ticks, hist>>

\* fs.unlink(chunkPath) settles
finalizeUnlink(s, io) ==
  /\ calls[s].op = "uploadChunk" /\ calls[s].pc = "unlink"
  /\ LET id == calls[s].id
         i == calls[s].i
     IN
     IF io = "fail" \/ i \notin DOMAIN chunkFiles[id]
     THEN finalizeFail(s) /\ UNCHANGED chunkFiles
     ELSE /\ chunkFiles' = [chunkFiles EXCEPT ![id] =
                 [m \in (DOMAIN @) \ {i} |-> @[m]]]
          /\ finalizeLoop(s, i + 1)
          /\ UNCHANGED uploadProgress
          /\ lastResp' = NoResp
  /\ UNCHANGED <<outbound, now, nextId, known, activeUploads, chunkInfo, dirs, finalFile,
                 storageUploads, reaper, chunkCalls, ticks, hist>>

\* writeStream.close() settles; storage.createUpload is called
finalizeClose(s, io) ==
  /\ calls[s].op = "uploadChunk" /\ calls[s].pc = "close"
  /\ IF io = "fail"
     THEN finalizeFail(s)
     ELSE /\ calls' = [calls EXCEPT ![s].pc = "createUpload"]
          /\ UNCHANGED uploadProgress
          /\ lastResp' = NoResp
  /\ UNCHANGED <<outbound, now, nextId, known, activeUploads, chunkInfo, disk,
                 storageUploads, reaper, chunkCalls, ticks, hist>>

\* storage.createUpload settles; lines 240-247, then uploadChunk answers
finalizeCreateUpload(s, io) ==
  /\ calls[s].op = "uploadChunk" /\ calls[s].pc = "createUpload"
  /\ LET id == calls[s].id IN
     IF io = "fail"
     THEN finalizeFail(s) /\ UNCHANGED <<storageUploads, activeUploads>>
     ELSE /\ storageUploads' = [storageUploads EXCEPT ![id] =
                                  Append(@, chunkInfo[id].totalSize)]
          /\ uploadProgress' = [uploadProgress EXCEPT ![id] = finalizeDone(@)]
          /\ activeUploads' = activeUploads \ {id}
          /\ uploadChunkRespond(s, chunkInfo[id], finalizeDone(uploadProgress[id]))
  /\ UNCHANGED <<outbound, now, nextId, known, chunkInfo, disk, reaper, chunkCalls,
                 ticks, hist>>

\* ------------------------------------------------------------ cancelUpload
\* the call is suspended at one of the awaits of finalizeUpload for the uploadId
Finalizing(call, id) ==
  /\ call.op = "uploadChunk" /\ call.id = id
  /\ call.pc \in {"open", "readFile", "write", "unlink", "close", "createUpload"}

\* the calls, with those noted that a cancelUpload of id finds in finalizeUpload
cancelledWhileFinalizing(id) ==
  [t \in Slots |-> IF Finalizing(calls[t], id)
                   THEN [calls[t] EXCEPT !.cancelled = TRUE] ELSE calls[t]]

\* cancelUpload up to `await fs.rm`
cancelMark(prog) == IF prog.exists THEN [prog EXCEPT !.status = "cancelled"]
                    ELSE prog

\* a removal that empties the chunk files of every session
rmChunkFilesOfAll(id) == [i \in AllIds |-> <<>>]

\* fs.rm(uploadDir, {recursive, force}) resolved: the directory and all in it
rmDirs(id) == dirs \ {id}
rmChunkFiles(id) == [chunkFiles EXCEPT ![id] = <<>>]
rmFinalFile(id) == [m \in (DOMAIN finalFile) \ {id} |-> finalFile[m]]

handleCancelUploadBegin(s, id) ==
  /\ FreeSlot(s)
  /\ uploadProgress' = [uploadProgress EXCEPT ![id] = cancelMark(@)]
  /\ calls' = [cancelledWhileFinalizing(id) EXCEPT ![s] =
       [Idle EXCEPT !.op = "cancelUpload", !.pc = "rm", !.id = id]]
  /\ UNCHANGED <<outbound, now, nextId, known, activeUploads, chunkInfo, disk,
                 storageUploads, reaper, chunkCalls, ticks, hist>>
  /\ lastResp' = NoResp

\* as handleCancelUploadRm, with activeUploads.delete inside the try of fs.rm:
\* a rejected removal skips it
handleCancelUploadRmDeleteInTry(s, io) ==
  /\ calls[s].op = "cancelUpload" /\ calls[s].pc = "rm"
  /\ LET id == calls[s].id IN
     /\ IF io = "ok"
        THEN /\ dirs' = rmDirs(id)
             /\ chunkFiles' = rmChunkFiles(id)
             /\ finalFile' = rmFinalFile(id)
        ELSE UNCHANGED disk
     /\ activeUploads' = IF io = "ok" THEN activeUploads \ {id} ELSE activeUploads
     /\ cancelReturned' = cancelReturned \cup ({id} \cap Ids)
     /\ lastResp' = Resp("cancelUpload", id, 200)
  /\ calls' = [calls EXCEPT ![s] = Idle]
  /\ UNCHANGED <<outbound, now, nextId, known, chunkInfo, uploadProgress, storageUploads,
                 reaper, chunkCalls, ticks, finalizeStarts, acceptedSet>>

\* fs.rm settles (a rejection is logged only); the session leaves the table
handleCancelUploadRm(s, io) ==
  /\ calls[s].op = "cancelUpload" /\ calls[s].pc = "rm"
  /\ LET id == calls[s].id IN
     /\ IF io = "ok"
        THEN /\ dirs' = rmDirs(id)
             /\ chunkFiles' = rmChunkFiles(id)
             /\ finalFile' = rmFinalFile(id)
        ELSE UNCHANGED disk
     /\ activeUploads' = activeUploads \ {id}
     /\ cancelReturned' = cancelReturned \cup ({id} \cap Ids)
     /\ lastResp' = Resp("cancelUpload", id, 200)
  /\ calls' = [calls EXCEPT ![s] = Idle]
  /\ UNCHANGED <<outbound, now, nextId, known, chunkInfo, uploadProgress, storageUploads,
                 reaper, chunkCalls, ticks, finalizeStarts, acceptedSet>>

\* ------------------------------------------------------------ resumeUpload
\* JSON.stringify of a number: NaN is written as null
JsonNull == -2000
jsonNumber(x) == IF x = NaN THEN JsonNull ELSE x

RECURSIVE nextChunkFrom(_, _)
\* the for loop of getNextChunkNumber from index i on
nextChunkFrom(info, i) ==
  IF ~(i < info.totalChunks) THEN -1
  ELSE IF i \notin info.uploadedChunks THEN i
  ELSE nextChunkFrom(info, i + 1)

getNextChunkNumber(info) == nextChunkFrom(info, 0)

\* the object of res.json in resumeUpload; the array Array.from(uploadedChunks)
\* is kept as the set of its elements
resumeUploadBody(info) ==
  [uploadedChunks |-> {jsonNumber(n) : n \in info.uploadedChunks},
   totalChunks |-> info.totalChunks,
   nextChunk |-> getNextChunkNumber(info)]

resumeUpload(id) ==
  /\ IF ~sessionFound(id)
     THEN /\ lastResp' = Resp("resumeUpload", id, 404)
          /\ UNCHANGED chunkInfo
     ELSE /\ chunkInfo' = [chunkInfo EXCEPT ![id] = updateLastActivity(@)]
          /\ lastResp' = RespBody("resumeUpload", id, 200,
                                  resumeUploadBody(chunkInfo[id]))
  /\ UNCHANGED <<outbound, now, nextId, known, activeUploads, uploadProgress, disk,
                 storageUploads, calls, reaper, chunkCalls, ticks, hist>>

\* ----------------------------------------------------- cleanupStaleUploads
\* the entries the Map iterator still has to visit after key `after`
\* (insertion order is the order of the ids), and the first stale one
staleAfter(after, cutoff) ==
  {id \in activeUploads : id > after /\ chunkInfo[id].lastActivity < cutoff}

\* the loop runs on to the first stale entry and starts its cancelUpload
reaperAdvance(after, cutoff) ==
  IF staleAfter(after, cutoff) = {}
  THEN /\ reaper' = ReaperIdle
       /\ UNCHANGED <<uploadProgress, calls>>
  ELSE LET id == Min(staleAfter(after, cutoff)) IN
       /\ reaper' = [pc |-> "rm", id |-> id, cutoff |-> cutoff]
       /\ uploadProgress' = [uploadProgress EXCEPT ![id] = cancelMark(@)]
       /\ calls' = cancelledWhileFinalizing(id)

cleanupStaleUploadsBegin ==
  /\ reaper.pc = "idle"
  /\ reaperAdvance(0, now - UPLOAD_TIMEOUT)
  /\ UNCHANGED <<outbound, now, nextId, known, activeUploads, chunkInfo, disk,
                 storageUploads, chunkCalls, ticks, hist>>
  /\ lastResp' = NoResp

cleanupStaleUploadsRm(io) ==
  /\ reaper.pc = "rm"
  /\ LET id == reaper.id IN
     /\ IF io = "ok"
        THEN /\ dirs' = rmDirs(id)
             /\ chunkFiles' = rmChunkFiles(id)
             /\ finalFile' = rmFinalFile(id)
        ELSE UNCHANGED disk
     /\ activeUploads' = activeUploads \ {id}
     /\ cancelReturned' = cancelReturned \cup ({id} \cap Ids)
     /\ reaperAdvance(id, reaper.cutoff)
  /\ UNCHANGED <<outbound, now, nextId, known, chunkInfo, storageUploads,
                 chunkCalls, ticks, finalizeStarts, acceptedSet>>
  /\ lastResp' = NoResp

Tick ==
  /\ ticks < MaxTicks
  /\ ticks' = ticks + 1
  /\ now' = now + TickMs
  /\ UNCHANGED <<outbound, nextId, known, svc, disk, storageUploads, calls,
                 reaper, chunkCalls, hist>>
  /\ lastResp' = NoResp

\* a call answered 400 or 404 reads neither the chunk number nor the payload:
\* one value of each stands for all of them
ChunkNumsRead(nums, id, hasFile) ==
  IF hasFile /\ id \in activeUploads THEN nums ELSE {0}
PayloadsRead(payloads, id, hasFile) ==
  IF hasFile /\ id \in activeUploads THEN payloads ELSE {<<1>>}

\* the uploadIds a client can name: those it was given, and one it was not
ClientIds == known \cup {UnknownId}

\* the HTTP calls and their continuations, for chunk numbers, payloads and I/O
\* outcomes drawn from the given sets, with at most `sessions` sessions created
Calls(nums, payloads, outcomes, sessions) ==
  \/ \E s \in Slots, r \in InitRequests :
       /\ initializeUploadBegin(s, r.filename, r.totalSize, r.totalChunks)
       /\ nextId' <= sessions + 1
  \/ \E s \in Slots, io \in outcomes : initializeUploadMkdir(s, io)
  \/ \E s \in Slots, id \in ClientIds, hasFile \in BOOLEAN :
       \E n \in ChunkNumsRead(nums, id, hasFile),
          data \in PayloadsRead(payloads, id, hasFile) :
         uploadChunkBegin(s, id, n, hasFile, data)
  \/ \E s \in Slots, io \in outcomes : uploadChunkWrite(s, io)
  \/ \E s \in Slots, io \in outcomes : finalizeOpen(s, io)
  \/ \E s \in Slots, io \in outcomes : finalizeRead(s, io)
  \/ \E s \in Slots, io \in outcomes : finalizeWrite(s, io)
  \/ \E s \in Slots, io \in outcomes : finalizeUnlink(s, io)
  \/ \E s \in Slots, io \in outcomes : finalizeClose(s, io)
  \/ \E s \in Slots, io \in outcomes : finalizeCreateUpload(s, io)
  \/ \E s \in Slots, id \in ClientIds : handleCancelUploadBegin(s, id)
  \/ \E s \in Slots, io \in outcomes : handleCancelUploadRm(s, io)
  \/ \E id \in ClientIds : resumeUpload(id)

\* The service while the clock stands still: no session goes stale, the reaper
\* finds nothing to do.
Next == Calls(ChunkNums, Payloads, IoOutcomes, MaxSessions)

Spec == Init /\ [][Next]_vars

\* The service with the clock and the reaper; the chunks are in range and of
\* one content.
NextReaper ==
  \/ Calls(0..(MaxChunks - 1), {<<1>>}, IoOutcomes, MaxSessions)
  \/ cleanupStaleUploadsBegin
  \/ \E io \in IoOutcomes : cleanupStaleUploadsRm(io)
  \/ Tick

SpecReaper == Init /\ [][NextReaper]_vars

\* Two sessions side by side: each chunk is chunk 0 of one content, and the
\* I/O calls succeed.
NextIsolation == Calls({0}, {<<1>>}, {"ok"}, MaxSessionsIsolation)

SpecIsolation == Init /\ [][NextIsolation]_vars

\* ------------------------------------------------------------------------
\* The outbound adapters: class ChunkedUploadHelpers of ctaService.ts.  A call
\* is suspended at each await (getValidToken, streamToBuffer, fetch,
\* response.json); the remote answers a fetch when it settles.
\* ------------------------------------------------------------------------
OutIdleSlots == {s \in OutSlots : outCalls[s].op = "idle"}
OutFreeSlot(s) == OutIdleSlots # {} /\ s = Min(OutIdleSlots)

\* response.ok
ResponseOk(httpStatus) == httpStatus \in {200, 201}

\* a plan that drops the remainder: Math.floor(fileSize / CHUNK_SIZE) chunks
calculateChunksFloor(fileSize) ==
  [i \in 1..(fileSize \div CHUNK_SIZE) |->
     [index |-> i - 1, size |-> CHUNK_SIZE, uploaded |-> FALSE]]

\* the length of the byte range a chunk call reads: startByte, endByte and
\* chunkSize = endByte - startByte + 1
byteRangeLength(chunkIndex, fileSize) ==
  LET startByte == chunkIndex * CHUNK_SIZE
      endByte == IF startByte + CHUNK_SIZE - 1 < fileSize - 1
                 THEN startByte + CHUNK_SIZE - 1 ELSE fileSize - 1
  IN endByte - startByte + 1

\* calculateChunks: Math.ceil(fileSize / CHUNK_SIZE) chunks, each with its
\* index, its size and uploaded: false
calculateChunks(fileSize) ==
  [i \in 1..((fileSize + CHUNK_SIZE - 1) \div CHUNK_SIZE) |->
     LET startByte == (i - 1) * CHUNK_SIZE
         endByte == IF startByte + CHUNK_SIZE - 1 < fileSize - 1
                    THEN startByte + CHUNK_SIZE - 1 ELSE fileSize - 1
     IN [index |-> i - 1, size |-> endByte - startByte + 1, uploaded |-> FALSE]]

\* a lookup that takes every index
chunkDefinedAlways(session, chunkIndex) == TRUE

\* session.chunks[chunkIndex] is defined
chunkDefined(session, chunkIndex) ==
  chunkIndex >= 0 /\ chunkIndex < Len(session.chunks)

\* this.uploadSessions.get(sessionId) is a session of the platform
sessionValid(sid, platform) ==
  uploadSessions[sid].exists /\ uploadSessions[sid].platform = platform

\* chunk.uploaded = true; session.status = <status>
markUploaded(session, chunkIndex, newStatus) ==
  [session EXCEPT !.chunks[chunkIndex + 1].uploaded = TRUE,
                  !.status = newStatus]

\* a call that sends the lowest segment not yet uploaded in place of its own
segmentIndexNextPending(call) ==
  LET session == uploadSessions[call.sid]
      pending == {i \in 0..(Len(session.chunks) - 1) :
                    ~session.chunks[i + 1].uploaded}
  IN IF pending = {} THEN call.index ELSE Min(pending)

\* formData.append('segment_index', chunkIndex.toString())
segmentIndexSent(call) == call.index

\* a call whose failure is answered by issuing its request again, once
afterFailureRetry(call) ==
  IF call.pc = "fetch" /\ call.requests < 2
  THEN [call EXCEPT !.requests = @ + 1] ELSE OutIdle

\* the catch blocks: the call ends (the result is returned or the error
\* rethrown), nothing is sent again
afterFailure(call) == OutIdle

\* a call that goes on without a token
tokenMissingNever(token) == FALSE

\* if (!accessToken)
tokenMissing(token) == token = "null"

\* what the catch block sees when the fetch did not bring a success: the
\* rejection of fetch itself, or the Error thrown with response.status
fetchError(httpStatus) ==
  IF httpStatus = NetworkError THEN "network" ELSE "status"

\* the call of slot s ends in its catch block: initialize rethrows, the chunk
\* and finalize methods return { success: false }
outFails(s, error) ==
  /\ outCalls' = [outCalls EXCEPT ![s] = afterFailure(@)]
  /\ outResult' = OutError(outCalls[s].op, outCalls[s].sid,
                           IF outCalls[s].op = "initialize"
                           THEN "throw" ELSE "failure",
                           outCalls[s].requests, error)

\* the call of slot s returns { success: true }
outSucceeds(s) ==
  /\ outCalls' = [outCalls EXCEPT ![s] = OutIdle]
  /\ outResult' = OutResult(outCalls[s].op, outCalls[s].sid, "success",
                            outCalls[s].requests)

\* the call of slot s issues its fetch and waits for the response
outSends(s, token) ==
  /\ outCalls' = [outCalls EXCEPT ![s] =
       [@ EXCEPT !.pc = "fetch", !.requests = @ + 1, !.accessToken = token,
                 !.segment = IF outCalls[s].op = "uploadChunk"
                             THEN segmentIndexSent(outCalls[s]) ELSE -1]]
  /\ outResult' = NoResult

\* the session object is built and stored: this.uploadSessions.set
outCreatesSession(s) ==
  LET sid == nextSession IN
  /\ uploadSessions' = [uploadSessions EXCEPT ![sid] =
       [exists |-> TRUE, platform |-> outCalls[s].platform,
        fileSize |-> outCalls[s].fileSize,
        chunks |-> calculateChunks(outCalls[s].fileSize),
        status |-> "initialized", owner |-> outCalls[s].tokenUser]]
  /\ nextSession' = nextSession + 1
  /\ outCalls' = [outCalls EXCEPT ![s] = OutIdle]
  /\ outResult' = OutResult("initialize", sid, "session", outCalls[s].requests)

\* session.id.split('_')[0]: the id is `${platform}_${Date.now()}_${random}`,
\* its first part is the platform name
sessionIdPrefix(sid) == uploadSessions[sid].platform

\* initialize*Upload up to `await oauthService.getValidToken`
initializeOutbound(s, platform, userId, fileSize) ==
  /\ OutFreeSlot(s) /\ outCount < MaxOutCalls
  /\ nextSession + Cardinality({t \in OutSlots : outCalls[t].op = "initialize"})
       <= MaxOutInits
  /\ outCalls' = [outCalls EXCEPT ![s] =
       [OutIdle EXCEPT !.op = "initialize", !.pc = "token",
                       !.platform = platform, !.fileSize = fileSize,
                       !.tokenUser = userId]]
  /\ outCount' = outCount + 1
  /\ outResult' = NoResult
  /\ UNCHANGED <<inbound, uploadSessions, nextSession, remoteNext>>

initializeYouTubeUpload(s, userId, fileSize) ==
  initializeOutbound(s, "youtube", userId, fileSize)
initializeXUpload(s, userId, fileSize) ==
  initializeOutbound(s, "twitter", userId, fileSize)
initializeTikTokUpload(s, userId, fileSize) ==
  initializeOutbound(s, "tiktok", userId, fileSize)

\* upload*Chunk up to its first await: the session lookup, and for the
\* adapters that ask for no token the chunk lookup
uploadChunkOutbound(s, platform, sid, chunkIndex) ==
  /\ OutFreeSlot(s) /\ outCount < MaxOutCalls
  /\ outCount' = outCount + 1
  /\ LET call == [OutIdle EXCEPT !.op = "uploadChunk", !.platform = platform,
                                 !.sid = sid, !.index = chunkIndex]
     IN IF ~sessionValid(sid, platform)
        THEN /\ outResult' = OutError("uploadChunk", sid, "failure", 0, "session")
             /\ UNCHANGED outCalls
        ELSE IF platform = "twitter"
        THEN /\ outCalls' = [outCalls EXCEPT ![s] =
                  [call EXCEPT !.pc = "token",
                               !.tokenUser = sessionIdPrefix(sid)]]
             /\ outResult' = NoResult
        ELSE IF ~chunkDefined(uploadSessions[sid], chunkIndex)
        THEN /\ outResult' = OutError("uploadChunk", sid, "failure", 0, "chunk")
             /\ UNCHANGED outCalls
        ELSE /\ outCalls' = [outCalls EXCEPT ![s] = [call EXCEPT !.pc = "read"]]
             /\ outResult' = NoResult
  /\ UNCHANGED <<inbound, uploadSessions, nextSession, remoteNext>>

uploadYouTubeChunk(s, sid, chunkIndex) ==
  uploadChunkOutbound(s, "youtube", sid, chunkIndex)
uploadXChunk(s, sid, chunkIndex) ==
  uploadChunkOutbound(s, "twitter", sid, chunkIndex)
uploadTikTokChunk(s, sid, chunkIndex) ==
  uploadChunkOutbound(s, "tiktok", sid, chunkIndex)

\* finalizeXUpload up to `await oauthService.getValidToken`
finalizeXUpload(s, sid) ==
  /\ OutFreeSlot(s) /\ outCount < MaxOutCalls
  /\ outCount' = outCount + 1
  /\ IF ~sessionValid(sid, "twitter")
     THEN /\ outResult' = OutError("finalize", sid, "failure", 0, "session")
          /\ UNCHANGED outCalls
     ELSE /\ outCalls' = [outCalls EXCEPT ![s] =
               [OutIdle EXCEPT !.op = "finalize", !.pc = "token",
                               !.platform = "twitter", !.sid = sid,
                               !.tokenUser = sessionIdPrefix(sid)]]
          /\ outResult' = NoResult
  /\ UNCHANGED <<inbound, uploadSessions, nextSession, remoteNext>>

\* getValidToken settles; for initialize, fs.statSync follows and may throw
getValidTokenSettles(s, token, stat) ==
  /\ outCalls[s].pc = "token"
  /\ LET call == outCalls[s] IN
     IF tokenMissing(token) THEN outFails(s, "token")
     ELSE IF call.op = "initialize"
     THEN IF stat = "fail" THEN outFails(s, "stat") ELSE outSends(s, token)
     ELSE IF call.op = "finalize" THEN outSends(s, token)
     ELSE IF ~chunkDefined(uploadSessions[call.sid], call.index)
     THEN outFails(s, "chunk")
     ELSE /\ outCalls' = [outCalls EXCEPT ![s].pc = "read",
                                          ![s].accessToken = token]
          /\ outResult' = NoResult
  /\ UNCHANGED <<inbound, uploadSessions, nextSession, remoteNext, outCount>>

\* streamToBuffer settles; the chunk request is sent
streamToBufferSettles(s, io) ==
  /\ outCalls[s].pc = "read"
  /\ IF io = "fail" THEN outFails(s, "stream")
     ELSE outSends(s, outCalls[s].accessToken)
  /\ UNCHANGED <<inbound, uploadSessions, nextSession, remoteNext, outCount>>

\* the remote of INIT/APPEND/FINALIZE takes the segments in order: it answers
\* success to an APPEND only for the segment it expects next
remoteAllows(call, httpStatus) ==
  (call.op = "uploadChunk" /\ call.platform = "twitter" /\ ResponseOk(httpStatus))
    => call.segment = remoteNext[call.sid]

\* fetch settles with the remote's answer (hasBody: the answer carries what the
\* code reads from it, the location header of the resumable session)
fetchSettles(s, httpStatus, hasBody) ==
  /\ outCalls[s].pc = "fetch"
  /\ remoteAllows(outCalls[s], httpStatus)
  /\ LET call == outCalls[s]
         sid == call.sid
     IN
     /\ remoteNext' = IF call.op = "uploadChunk" /\ call.platform = "twitter"
                         /\ ResponseOk(httpStatus)
                      THEN [remoteNext EXCEPT ![sid] = @ + 1] ELSE remoteNext
     /\ IF call.op = "initialize"
        THEN IF ~ResponseOk(httpStatus)
             THEN outFails(s, fetchError(httpStatus))
                  /\ UNCHANGED <<uploadSessions, nextSession>>
             ELSE IF call.platform = "youtube"
             THEN IF hasBody THEN outCreatesSession(s)
                  ELSE outFails(s, "location")
                       /\ UNCHANGED <<uploadSessions, nextSession>>
             ELSE /\ outCalls' = [outCalls EXCEPT ![s].pc = "json"]
                  /\ outResult' = NoResult
                  /\ UNCHANGED <<uploadSessions, nextSession>>
        ELSE IF call.op = "finalize"
        THEN /\ IF ResponseOk(httpStatus)
                THEN /\ outCalls' = [outCalls EXCEPT ![s].pc = "json"]
                     /\ outResult' = NoResult
                ELSE outFails(s, fetchError(httpStatus))
             /\ UNCHANGED <<uploadSessions, nextSession>>
        ELSE IF call.platform = "youtube"
        THEN /\ UNCHANGED nextSession
             /\ IF httpStatus = 308
                THEN /\ uploadSessions' = [uploadSessions EXCEPT ![sid] =
                          markUploaded(@, call.index, "uploading")]
                     /\ outSucceeds(s)
                ELSE IF httpStatus \in {200, 201}
                THEN /\ uploadSessions' = [uploadSessions EXCEPT ![sid] =
                          markUploaded(@, call.index, "completed")]
                     /\ outCalls' = [outCalls EXCEPT ![s].pc = "json"]
                     /\ outResult' = NoResult
                ELSE outFails(s, fetchError(httpStatus)) /\ UNCHANGED uploadSessions
        ELSE /\ UNCHANGED nextSession
             /\ IF ResponseOk(httpStatus)
                THEN /\ uploadSessions' = [uploadSessions EXCEPT ![sid] =
                          markUploaded(@, call.index, "uploading")]
                     /\ outSucceeds(s)
                ELSE outFails(s, fetchError(httpStatus)) /\ UNCHANGED uploadSessions
  /\ UNCHANGED <<inbound, outCount>>

\* response.json() settles
responseJsonSettles(s, io) ==
  /\ outCalls[s].pc = "json"
  /\ LET call == outCalls[s] IN
     IF io = "fail"
     THEN outFails(s, "json") /\ UNCHANGED <<uploadSessions, nextSession>>
     ELSE IF call.op = "initialize" THEN outCreatesSession(s)
     ELSE IF call.op = "finalize"
     THEN /\ uploadSessions' = [uploadSessions EXCEPT ![call.sid].status = "completed"]
          /\ outSucceeds(s)
          /\ UNCHANGED nextSession
     ELSE outSucceeds(s) /\ UNCHANGED <<uploadSessions, nextSession>>
  /\ UNCHANGED <<inbound, remoteNext, outCount>>

\* deleteSession: Map.delete takes the session out of the table; calls that
\* hold the session object keep working on it
deleteSession(sid) ==
  /\ outCount < MaxOutCalls
  /\ outCount' = outCount + 1
  /\ uploadSessions' = [uploadSessions EXCEPT ![sid].exists = FALSE]
  /\ outResult' = OutResult("deleteSession", sid,
                            IF uploadSessions[sid].exists THEN "success" ELSE "failure",
                            0)
  /\ UNCHANGED <<inbound, nextSession, outCalls, remoteNext>>

\* chunks.filter(c => c.uploaded).length over the first k chunks
RECURSIVE uploadedCount(_, _)
uploadedCount(chunks, k) ==
  IF k = 0 THEN 0
  ELSE (IF chunks[k].uploaded THEN 1 ELSE 0) + uploadedCount(chunks, k - 1)

\* chunks.filter(c => c.uploaded).reduce((sum, c) => sum + c.size, 0) over
\* the first k chunks
RECURSIVE uploadedBytes(_, _)
uploadedBytes(chunks, k) ==
  IF k = 0 THEN 0
  ELSE (IF chunks[k].uploaded THEN chunks[k].size ELSE 0)
         + uploadedBytes(chunks, k - 1)

\* a report that takes every planned chunk as uploaded
getUploadProgressPlanned(sid) ==
  LET session == uploadSessions[sid] IN
  [totalChunks |-> Len(session.chunks),
   uploadedChunks |-> Len(session.chunks),
   percentComplete |-> <<100, 1>>,
   bytesUploaded |-> session.fileSize,
   totalBytes |-> session.fileSize]

\* getUploadProgress; percentComplete is the quotient <<numerator, denominator>>,
\* 0 / 0 being NaN
getUploadProgress(sid) ==
  LET session == uploadSessions[sid]
      n == Len(session.chunks)
  IN IF ~session.exists
     THEN [totalChunks |-> 0, uploadedChunks |-> 0, percentComplete |-> <<0, 1>>,
           bytesUploaded |-> 0, totalBytes |-> 0]
     ELSE [totalChunks |-> n,
           uploadedChunks |-> uploadedCount(session.chunks, n),
           percentComplete |-> IF n = 0 THEN <<NaN, 1>>
                               ELSE <<uploadedCount(session.chunks, n) * 100, n>>,
           bytesUploaded |-> uploadedBytes(session.chunks, n),
           totalBytes |-> session.fileSize]

\* the session ids a caller can name: those returned to it, and one that was not
OutClientIds == {sid \in OutIds : sid < nextSession} \cup {UnknownSession}

\* the calls and settlements of the adapters, over the file sizes fs.statSync
\* can report and the outcomes the token provider, the file stream and the
\* remote can produce
OutboundCalls(sizes, tokens, outcomes, statuses) ==
  \/ \E s \in OutSlots, userId \in UserIds, size \in sizes :
       initializeYouTubeUpload(s, userId, size)
  \/ \E s \in OutSlots, userId \in UserIds, size \in sizes :
       initializeXUpload(s, userId, size)
  \/ \E s \in OutSlots, userId \in UserIds, size \in sizes :
       initializeTikTokUpload(s, userId, size)
  \/ \E s \in OutSlots, sid \in OutClientIds, i \in OutIndices :
       uploadYouTubeChunk(s, sid, i)
  \/ \E s \in OutSlots, sid \in OutClientIds, i \in OutIndices :
       uploadXChunk(s, sid, i)
  \/ \E s \in OutSlots, sid \in OutClientIds, i \in OutIndices :
       uploadTikTokChunk(s, sid, i)
  \/ \E s \in OutSlots, sid \in OutClientIds : finalizeXUpload(s, sid)
  \/ \E sid \in OutClientIds : deleteSession(sid)
  \/ \E s \in OutSlots, token \in tokens, stat \in outcomes :
       getValidTokenSettles(s, token, stat)
  \/ \E s \in OutSlots, io \in outcomes : streamToBufferSettles(s, io)
  \/ \E s \in OutSlots, httpStatus \in statuses, hasBody \in BOOLEAN :
       fetchSettles(s, httpStatus, hasBody)
  \/ \E s \in OutSlots, io \in outcomes : responseJsonSettles(s, io)

NextOutbound ==
  OutboundCalls(OutFileSizes, TokenOutcomes, IoOutcomes, HttpStatuses)

SpecOutbound == Init /\ [][NextOutbound]_vars

\* the adapters over files of every size around the chunk boundaries, with
\* the token provider, the file stream and the remote all succeeding
NextPlan == OutboundCalls(PlanFileSizes, {"token"}, {"ok"}, {200})

SpecPlan == Init /\ [][NextPlan]_vars

\* the steps in which an awaited fs / storage promise of a call settles
Settles ==
  \E s \in Slots, io \in IoOutcomes :
    \/ initializeUploadMkdir(s, io) \/ uploadChunkWrite(s, io)
    \/ finalizeOpen(s, io) \/ finalizeRead(s, io) \/ finalizeWrite(s, io)
    \/ finalizeUnlink(s, io) \/ finalizeClose(s, io)
    \/ finalizeCreateUpload(s, io) \/ handleCancelUploadRm(s, io)

\* The service with a reaper that setInterval keeps starting, a clock that
\* advances, and promises that settle; clients are free to stop calling.
SpecLive ==
  /\ SpecReaper
  /\ WF_vars(cleanupStaleUploadsBegin)
  /\ WF_vars(\E io \in IoOutcomes : cleanupStaleUploadsRm(io))
  /\ WF_vars(Settles)
  /\ WF_vars(Tick)

\* ------------------------------------------------------------------ claims
status(id) == uploadProgress[id].status
\* the last step sent this status code in answer to a call of op for id
Answered(op, id, code) ==
  lastResp.op = op /\ lastResp.id = id /\ lastResp.code = code
Terminal == {"completed", "cancelled", "error"}

RECURSIVE SumLen(_)
\* the byte lengths of a set of (chunkNumber, bytes) pairs, added up
SumLen(S) == IF S = {} THEN 0
             ELSE LET p == CHOOSE q \in S : TRUE IN Len(p[2]) + SumLen(S \ {p})

\* C1: accepting the same (uploadId, chunkNumber, bytes) twice leaves the set of
\* received chunks as large as accepting it once, and the byte counter has grown
\* by that chunk's length exactly once: the counter is the sum over the distinct
\* (chunkNumber, bytes) accepted (stated for sessions whose chunks are in range).
InRange(id) == 0..(chunkInfo[id].totalChunks - 1)

C1_IdempotentChunkWrite ==
  \A id \in Ids :
    {p[1] : p \in acceptedSet[id]} \subseteq InRange(id) =>
    /\ Cardinality(chunkInfo[id].uploadedChunks)
         = Cardinality({p[1] : p \in acceptedSet[id]})
    /\ uploadProgress[id].bytesUploaded = SumLen(acceptedSet[id])

\* C2: finalizeUpload is started at most once for an uploadId (stated for
\* sessions whose chunks are in range).
C2_AtMostOneAssembly ==
  \A id \in Ids :
    chunkInfo[id].uploadedChunks \subseteq InRange(id) => finalizeStarts[id] <= 1

\* C3: storage.createUpload is called once for a session that is completed, never
\* more than once for an uploadId, and records the declared totalSize.
C3_CreateUploadOnce ==
  \A id \in Ids :
    /\ Len(storageUploads[id]) <= 1
    /\ status(id) = "completed" => Len(storageUploads[id]) = 1
    /\ \A k \in DOMAIN storageUploads[id] :
         storageUploads[id][k] = chunkInfo[id].totalSize

\* C6: the received set of a session holds only indices i with
\* 0 <= i < totalChunks.
C6_ChunkIndexInBounds ==
  \A id \in Ids :
    chunkInfo[id].uploadedChunks \subseteq InRange(id)

\* the step in which the uploadChunk call of slot s has its chunk accepted: the
\* write resolved and the set and the byte counter were updated
Accepts(s) ==
  /\ calls[s].op = "uploadChunk" /\ calls[s].pc = "writeFile"
  /\ calls'[s] # calls[s]
  /\ lastResp'.code # 500

\* C4: finalize is triggered in exactly the uploadChunk call after which the
\* received set has totalChunks elements, whatever the index of the chunk just
\* received, and by nothing else.
C4_FinalizeOnFullSet ==
  [][/\ \A s \in Slots :
          Accepts(s) =>
            LET id == calls[s].id IN
            (finalizeStarts'[id] = finalizeStarts[id] + 1)
              <=> (Cardinality(chunkInfo'[id].uploadedChunks)
                     = chunkInfo'[id].totalChunks)
     /\ \A id \in Ids :
          finalizeStarts'[id] # finalizeStarts[id] =>
            \E s \in Slots : Accepts(s) /\ calls[s].id = id]_vars

\* the call that brought the last index of a session of two chunks was answered,
\* chunk 0 is still missing, and no finalize was started
C4_Witness ==
  /\ Answered("uploadChunk", 1, 200)
  /\ chunkInfo[1].totalChunks = 2
  /\ chunkInfo[1].uploadedChunks = {1}
  /\ finalizeStarts[1] = 0

RECURSIVE Concats(_, _)
\* the concatenations, in ascending index order from i on, of payloads accepted
\* for each index
Concats(id, i) ==
  IF i >= chunkInfo[id].totalChunks THEN {<<>>}
  ELSE {d \o r : d \in {p[2] : p \in {q \in acceptedSet[id] : q[1] = i}},
                 r \in Concats(id, i + 1)}

\* C5: when finalizeUpload succeeds, the output file holds the chunk payloads of
\* indices 0..totalChunks-1 concatenated in ascending order.
C5_AssemblyInOrder ==
  [][\A id \in Ids :
       (Len(storageUploads'[id]) > Len(storageUploads[id])
          /\ id \in DOMAIN finalFile')
         => finalFile'[id] \in Concats(id, 0)]_vars

\* C7: once the status is completed, cancelled or error, no step changes the
\* progress record.
C7_TerminalAbsorbing ==
  [][\A id \in Ids :
       status(id) \in Terminal => uploadProgress'[id] = uploadProgress[id]]_vars

C9_FailedSessionRefused ==
  [][\A id \in Ids :
       status(id) = "error" =>
         /\ finalizeStarts'[id] = finalizeStarts[id]
         /\ \A s \in Slots, n \in ChunkNums, data \in Payloads :
              (FreeSlot(s) /\ uploadChunkBegin(s, id, n, TRUE, data))
                => lastResp'.code = 404
         /\ resumeUpload(id) => lastResp'.code = 404]_vars

\* the state a cancelUpload whose removal succeeded leaves for an uploadId
PostCancel(id) ==
  /\ id \notin activeUploads /\ id \notin dirs
  /\ DOMAIN chunkFiles[id] = {} /\ id \notin DOMAIN finalFile
  /\ status(id) \in {"cancelled", "none"}

\* the step in which the cancelUpload call of slot s returns
CancelReturns(s) == handleCancelUploadRm(s, "ok") \/ handleCancelUploadRm(s, "fail")

\* a cancel of an uploadId that is in the state a cancel leaves, or unknown,
\* changes nothing
CancelIdempotent ==
  \A s \in Slots, id \in AllIds :
    (PostCancel(id) /\ (handleCancelUploadBegin(s, id)
                          \/ (calls[s].id = id /\ CancelReturns(s))))
      => UNCHANGED <<svc, disk, storageUploads>>

Quiescent(id) ==
  /\ \A s \in Slots : calls[s].op \in {"uploadChunk", "cancelUpload"}
                         => calls[s].id # id
  /\ ~(reaper.pc = "rm" /\ reaper.id = id)

Stale(id) == chunkInfo[id].lastActivity < now - UPLOAD_TIMEOUT

\* a step of cleanupStaleUploads that visits a session or ends the run
ReaperStep == reaper' # reaper

\* C12: no step of cleanupStaleUploads marks a session cancelled or removes it
\* from the active table while its lastActivity is within UPLOAD_TIMEOUT of the
\* current time.
C12_ReaperSparesFresh ==
  [][\A id \in Ids :
       (/\ ReaperStep
        /\ id \in activeUploads
        /\ (id \notin activeUploads' \/ status(id)' # status(id)))
         => Stale(id)]_vars

\* the step in which the cancelUpload awaited by cleanupStaleUploads returns
ReaperCancelReturns == reaper.pc = "rm" /\ ReaperStep

\* C13: the cancelUpload the reaper runs for a stale session leaves it out of
\* the active table, its storage removed and its status terminal; when a run
\* ends no session of the table is older than the run's cutoff; a session
\* reaped is not in the active table afterwards, so uploadChunk and
\* resumeUpload answer 404 for it.
C13_ReaperEffect ==
  /\ [][ReaperCancelReturns =>
          /\ reaper.id \notin activeUploads'
          /\ reaper.id \notin dirs' /\ DOMAIN chunkFiles'[reaper.id] = {}
          /\ uploadProgress'[reaper.id].status \in Terminal
          /\ reaper'.pc = "idle" =>
               \A id \in activeUploads' :
                 ~(chunkInfo'[id].lastActivity < reaper.cutoff)]_vars
  /\ [][\A id \in Ids :
          (id \in cancelReturned /\ resumeUpload(id)) => lastResp'.code = 404]_vars
  /\ [](\A id \in Ids : id \in cancelReturned => ~sessionFound(id))

\* C14: a session of the active table that has gone stale is, unless it is
\* touched again or completes, eventually out of the active table with its
\* storage directory deleted; and a storage directory whose session is not in
\* the active table (and did not complete) is eventually deleted.
C14_AbandonedReclaimed ==
  \A id \in Ids :
    /\ (id \in activeUploads /\ Stale(id))
         ~> \/ id \notin activeUploads /\ id \notin dirs
            \/ ~Stale(id)
            \/ status(id) = "completed"
    /\ (id \in dirs /\ id \notin activeUploads /\ status(id) # "completed")
         ~> id \notin dirs

\* the step in which a resumeUpload call for the uploadId is answered
ResumeAnswered(id) == lastResp'.op = "resumeUpload" /\ lastResp'.id = id

\* C15: resumeUpload for a session of the active table answers 200, sets its
\* lastActivity to the current time and changes nothing else (received set, byte
\* counter, progress, status, storage); for any other uploadId it answers 404
\* and changes nothing.
C15_ResumeFrame ==
  [][\A id \in AllIds :
       ResumeAnswered(id) =>
         IF id \in activeUploads
         THEN /\ lastResp'.code = 200
              /\ chunkInfo' = [chunkInfo EXCEPT ![id].lastActivity = now]
              /\ UNCHANGED <<activeUploads, uploadProgress, disk,
                             storageUploads, calls>>
         ELSE /\ lastResp'.code = 404
              /\ UNCHANGED <<svc, disk, storageUploads, calls>>]_vars

\* resumeUpload was answered for a session that has received a chunk, after the
\* clock has advanced past its last activity
C15_Witness ==
  /\ Answered("resumeUpload", 1, 200)
  /\ now = TickMs /\ chunkInfo[1].lastActivity = now
  /\ uploadProgress[1].startTime = 0
  /\ chunkInfo[1].uploadedChunks # {} /\ uploadProgress[1].bytesUploaded > 0

\* the indices of the session that have not been received
Missing(id) == InRange(id) \ chunkInfo[id].uploadedChunks

\* C16: the answer of resumeUpload lists exactly the received chunk numbers, and
\* its nextChunk is the smallest index of 0..totalChunks-1 not received, or -1
\* when all of them were.
C16_ResumeHint ==
  [][\A id \in Ids :
       (ResumeAnswered(id) /\ lastResp'.code = 200) =>
         /\ lastResp'.body.uploadedChunks = chunkInfo[id].uploadedChunks
         /\ lastResp'.body.nextChunk =
              IF Missing(id) = {} THEN -1 ELSE Min(Missing(id))]_vars

\* the requests the claim lists as rejected: a field missing, an extension that
\* is not allowed, a size above the maximum
Rejected(r) ==
  \/ r.filename = "" \/ r.totalSize = 0 \/ r.totalChunks = 0
  \/ r.filename = "clip.exe"
  \/ r.totalSize > MAX_FILE_SIZE

\* C17: an initializeUpload that is rejected answers 400 and leaves both tables,
\* the storage and the calls in flight as they were; one that passes adds
\* exactly one session, with status uploading, no chunk received and
\* bytesUploaded = 0, and touches no other session.
C17_InitAllOrNothing ==
  [][\A s \in Slots, r \in InitRequests :
       (FreeSlot(s)
          /\ initializeUploadBegin(s, r.filename, r.totalSize, r.totalChunks))
         => IF Rejected(r)
            THEN /\ lastResp' = Resp("initializeUpload", UnknownId, 400)
                 /\ UNCHANGED <<svc, disk, storageUploads, calls, nextId>>
            ELSE /\ nextId \notin activeUploads
                 /\ activeUploads' = activeUploads \cup {nextId}
                 /\ \A id \in AllIds \ {nextId} :
                      /\ chunkInfo'[id] = chunkInfo[id]
                      /\ uploadProgress'[id] = uploadProgress[id]
                 /\ ~uploadProgress[nextId].exists
                 /\ uploadProgress'[nextId].exists
                 /\ uploadProgress'[nextId].status = "uploading"
                 /\ uploadProgress'[nextId].bytesUploaded = 0
                 /\ chunkInfo'[nextId].uploadedChunks = {}]_vars

\* a request was rejected and no session exists
C17_Witness ==
  /\ Answered("initializeUpload", UnknownId, 400)
  /\ activeUploads = {} /\ nextId = 1 /\ dirs = {}
  /\ \A id \in AllIds : ~uploadProgress[id].exists

\* two numbers kept as fractions are equal
SameNumber(p, q) == p[1] * q[2] = q[1] * p[2]

\* two uploadChunk answers agree in every field
SameAnswer(a, b) ==
  /\ a.success = b.success /\ a.uploadedChunks = b.uploadedChunks
  /\ a.totalChunks = b.totalChunks /\ a.eta = b.eta
  /\ SameNumber(a.progress, b.progress)

\* the step in which the uploadChunk call of slot s returns from a
\* finalizeUpload that failed
FinalizeFailedAnswer(s) ==
  /\ calls[s].op = "uploadChunk" /\ calls'[s] = Idle
  /\ lastResp'.op = "uploadChunk"
  /\ uploadProgress'[calls[s].id].status = "error"
  /\ \/ calls[s].pc \in {"open", "readFile", "write", "unlink", "close",
                         "createUpload"}
     \/ finalizeStarts' # finalizeStarts

\* C18: the uploadChunk call whose finalize failed is answered 200, and its
\* answer differs from the answer the call sends when its finalize succeeds.
C18_InBandFinalizeFailure ==
  [][\A s \in Slots :
       FinalizeFailedAnswer(s) =>
         /\ lastResp'.code = 200
         /\ ~SameAnswer(lastResp'.body,
                        uploadChunkBody(chunkInfo'[calls[s].id],
                                        finalizeDone(uploadProgress[calls[s].id])))]_vars

\* the step in which a readFile or a write of the concatenation loop rejects
ConcatFails(s) ==
  /\ calls[s].op = "uploadChunk" /\ calls[s].pc \in {"readFile", "write"}
  /\ calls'[s] = Idle

\* C19: when a read or a write of the concatenation fails, the status becomes
\* error, the output file stays as it is, storage.createUpload is not called,
\* and no assembly is started again: the call returns and no other call moves.
C19_ConcatFailure ==
  [][\A s \in Slots :
       ConcatFails(s) =>
         /\ uploadProgress'[calls[s].id].status = "error"
         /\ finalFile' = finalFile
         /\ storageUploads' = storageUploads
         /\ finalizeStarts' = finalizeStarts
         /\ \A t \in Slots \ {s} : calls'[t] = calls[t]]_vars

\* the read of the second chunk failed after the first was written to the
\* output file
C19_Witness ==
  /\ Answered("uploadChunk", 1, 200)
  /\ status(1) = "error" /\ finalizeStarts[1] = 1
  /\ 1 \in DOMAIN finalFile /\ finalFile[1] # <<>>
  /\ storageUploads[1] = <<>>
  /\ 1 \in activeUploads

\* |x|
Abs(x) == IF x < 0 THEN -x ELSE x

\* C20: the eta stored when a chunk is accepted is the integer nearest to
\* (totalBytes - bytesUploaded) / (bytesUploaded / elapsed) when bytesUploaded
\* and elapsed are positive (3000 for 1000, 250, 1000 ms), is 0 when
\* bytesUploaded or elapsed is 0, and is never NaN.
C20_EtaMath ==
  [][/\ EtaOf(250, 1000, 1000) = 3000
     /\ \A s \in Slots :
          Accepts(s) =>
            LET prog == uploadProgress'[calls[s].id]
                bytes == prog.bytesUploaded
                elapsed == now - prog.startTime
            IN /\ prog.eta # NaN
               /\ IF bytes = 0 \/ elapsed = 0 THEN prog.eta = 0
                  ELSE 2 * Abs(prog.eta * bytes
                                 - (prog.totalBytes - bytes) * elapsed) <= bytes]_vars

\* C21: for every session with a numeric totalBytes the progress percentage is
\* 100 * bytesUploaded / totalBytes clamped to [0, 100], so never above 100, and
\* the eta is not negative.
C21_ProgressClamped ==
  \A id \in Ids :
    (uploadProgress[id].exists /\ uploadProgress[id].totalBytes # NaN) =>
      LET prog == uploadProgress[id]
          raw == <<100 * prog.bytesUploaded, prog.totalBytes>>
      IN /\ prog.progress[1] >= 0
         /\ prog.progress[1] <= 100 * prog.progress[2]
         /\ status(id) # "completed" =>
              SameNumber(prog.progress,
                         IF raw[1] > 100 * raw[2] THEN <<100, 1>> ELSE raw)
         /\ prog.eta >= 0

RECURSIVE SumFiles(_, _)
\* the byte lengths of the chunk files n \in S of a session, added up
SumFiles(id, S) ==
  IF S = {} THEN 0
  ELSE LET n == CHOOSE m \in S : TRUE
       IN Len(chunkFiles[id][n]) + SumFiles(id, S \ {n})

\* C22: when all totalChunks chunks of a session are on disk their byte lengths
\* add up to the declared totalSize, and the output file of a completed session
\* has totalSize bytes (stated for in-range chunk numbers and a numeric
\* totalSize).
C22_ExactSize ==
  \A id \in Ids :
    (chunkInfo[id].totalSize # NaN
       /\ chunkInfo[id].uploadedChunks \subseteq InRange(id)) =>
      /\ (uploadComplete(chunkInfo[id])
            /\ DOMAIN chunkFiles[id] = chunkInfo[id].uploadedChunks)
           => SumFiles(id, DOMAIN chunkFiles[id]) = chunkInfo[id].totalSize
      /\ (status(id) = "completed" /\ id \in DOMAIN finalFile)
           => Len(finalFile[id]) = chunkInfo[id].totalSize

\* byte counter and received set agree: one accepted (chunkNumber, bytes) per
\* received index, and the counter is the sum of their sizes
Consistent(id) ==
  /\ {p[1] : p \in acceptedSet[id]} = chunkInfo[id].uploadedChunks
  /\ Cardinality(acceptedSet[id]) = Cardinality(chunkInfo[id].uploadedChunks)
  /\ uploadProgress[id].bytesUploaded = SumLen(acceptedSet[id])

\* the step accepts, for the session, a chunk number it has received before
AcceptsDuplicate(id) ==
  \E s \in Slots : /\ Accepts(s) /\ calls[s].id = id
                   /\ calls[s].n \in chunkInfo[id].uploadedChunks

\* C24: an accepted chunk enters the received set and the byte counter in one
\* step, whatever other calls of the session are suspended meanwhile; so as
\* long as the chunk numbers accepted are distinct, in every state the counter
\* is the sum of the sizes of the chunks of the set, and the set is the union
\* of the accepted numbers.
C24_SetAndCounterAtomic ==
  [][/\ \A s \in Slots :
          Accepts(s) =>
            /\ chunkInfo'[calls[s].id].uploadedChunks
                 = chunkInfo[calls[s].id].uploadedChunks \cup {calls[s].n}
            /\ uploadProgress'[calls[s].id].bytesUploaded
                 = uploadProgress[calls[s].id].bytesUploaded + Len(calls[s].data)
     /\ \A id \in Ids :
          (Consistent(id) /\ ~AcceptsDuplicate(id)) => Consistent(id)']_vars

\* two calls with distinct chunk numbers were in flight together: one is
\* accepted while the other still waits for its write
C24_Witness ==
  \E s \in Slots :
    /\ calls[s].op = "uploadChunk" /\ calls[s].pc = "writeFile"
    /\ calls[s].id = 1 /\ calls[s].n = 0
    /\ Answered("uploadChunk", 1, 200)
    /\ chunkInfo[1].uploadedChunks = {1}
    /\ uploadProgress[1].bytesUploaded = 2 /\ Consistent(1)

\* the step belongs to a call for the uploadId: a call for it starts, moves on
\* or is answered
OperatesOn(a) ==
  \/ \E s \in Slots : calls'[s] # calls[s] /\ a \in {calls[s].id, calls'[s].id}
  \/ lastResp'.op # "none" /\ lastResp'.id = a

\* the step changes the session's record, its place in the active table or its
\* storage
Changed(b) ==
  \/ chunkInfo'[b] # chunkInfo[b] \/ uploadProgress'[b] # uploadProgress[b]
  \/ (b \in activeUploads') # (b \in activeUploads)
  \/ (b \in dirs') # (b \in dirs)
  \/ chunkFiles'[b] # chunkFiles[b]
  \/ (b \in DOMAIN finalFile') # (b \in DOMAIN finalFile)
  \/ (b \in DOMAIN finalFile /\ b \in DOMAIN finalFile'
        /\ finalFile'[b] # finalFile[b])

\* C23: a step of a call for session A (uploadChunk with its finalize,
\* resumeUpload, cancelUpload, initializeUpload) leaves every other session's
\* received set, lastActivity, progress record, status and files unchanged.
C23_SessionIsolation ==
  [][\A a \in Ids, b \in Ids :
       (a # b /\ OperatesOn(a)) => ~Changed(b)]_vars

\* session 1 was cancelled with its chunk removed while session 2 keeps its own
C23_Witness ==
  /\ 1 \in cancelReturned /\ acceptedSet[1] # {} /\ DOMAIN chunkFiles[1] = {}
  /\ 2 \in activeUploads /\ DOMAIN chunkFiles[2] # {}
  /\ status(2) = "uploading"

\* the call of slot s is an uploadXChunk whose APPEND request is out and whose
\* index is not the segment the remote expects next
OutOfOrder(s) ==
  /\ outCalls[s].op = "uploadChunk" /\ outCalls[s].platform = "twitter"
  /\ outCalls[s].pc = "fetch"
  /\ outCalls[s].index # remoteNext[outCalls[s].sid]

\* C25: against a remote that takes the segments in order, an uploadXChunk
\* whose index is not the next expected one (index 2 before index 1 on a fresh
\* session) sends exactly its own index, with one request, is answered with a
\* failure result, and leaves the chunk flags of the session as they were.
C25_AdapterOrdering ==
  [][\A s \in OutSlots :
       OutOfOrder(s) =>
         /\ outCalls[s].segment = outCalls[s].index
         /\ outCalls[s].requests = 1
         /\ outCalls'[s] # outCalls[s] =>
              /\ outResult'.op = "uploadChunk" /\ outResult'.kind = "failure"
              /\ outResult'.sid = outCalls[s].sid /\ outResult'.requests = 1
              /\ uploadSessions'[outCalls[s].sid].chunks
                   = uploadSessions[outCalls[s].sid].chunks]_vars

\* index 2 is out as segment 2 on a fresh three-chunk session whose remote
\* expects segment 0
C25_Witness ==
  \E s \in OutSlots :
    /\ OutOfOrder(s) /\ outCalls[s].index = 2 /\ outCalls[s].segment = 2
    /\ uploadSessions[outCalls[s].sid].status = "initialized"
    /\ Len(uploadSessions[outCalls[s].sid].chunks) = 3
    /\ remoteNext[outCalls[s].sid] = 0

\* C26: a call of initialize*Upload, upload*Chunk or finalizeXUpload sends at
\* most one request to the remote, while it runs and when it has ended,
\* whether the request succeeded or failed.
C26_NoAutomaticRetry ==
  /\ \A s \in OutSlots : outCalls[s].requests <= 1
  /\ outResult.requests <= 1

\* a chunk call ended in failure after its one request
C26_Witness ==
  /\ outResult.op = "uploadChunk" /\ outResult.kind = "failure"
  /\ outResult.requests = 1

\* the step in which the fetch of the chunk or finalize call of slot s settles
\* with a response that is not a success
RemoteRejects(s) ==
  /\ outCalls[s].op \in {"uploadChunk", "finalize"}
  /\ outCalls[s].pc = "fetch"
  /\ outCalls'[s] = OutIdle
  /\ outResult'.error = "status"

\* C27: when a chunk upload or a finalize gets a non-success response, the
\* call returns a failure result and the status of its session becomes failed.
C27_MidTransferFails ==
  [][\A s \in OutSlots :
       RemoteRejects(s) =>
         /\ outResult' = OutError(outCalls[s].op, outCalls[s].sid, "failure", 1,
                                  "status")
         /\ uploadSessions'[outCalls[s].sid].status = "failed"]_vars

\* C28: once the status of an outbound session is completed or failed, no
\* step of an upload*Chunk or finalizeXUpload call changes its status or its
\* chunk flags.
C28_TerminalAbsorbing ==
  [][\A sid \in OutIds :
       uploadSessions[sid].status \in {"completed", "failed"} =>
         /\ uploadSessions'[sid].status = uploadSessions[sid].status
         /\ uploadSessions'[sid].chunks = uploadSessions[sid].chunks]_vars

\* the call of slot s is an uploadYouTubeChunk that takes a step from pc
YouTubeStep(s, pc) ==
  /\ outCalls[s].op = "uploadChunk" /\ outCalls[s].platform = "youtube"
  /\ outCalls[s].pc = pc /\ outCalls'[s] # outCalls[s]

\* the chunk of the call of slot s is flagged and the session has the status
FlaggedWith(s, newStatus) ==
  /\ uploadSessions'[outCalls[s].sid].chunks[outCalls[s].index + 1].uploaded
  /\ uploadSessions'[outCalls[s].sid].status = newStatus

\* the PUT of the call of slot s is answered: 308 ends the call with success
\* and status uploading, 200 or 201 sets completed (the call goes on to read
\* the body), any other answer ends it with failure and no flag changed
C29_PutAnswered(s) ==
  YouTubeStep(s, "fetch") =>
    \/ /\ outResult'.kind = "success" /\ FlaggedWith(s, "uploading")
    \/ /\ outCalls'[s].pc = "json" /\ FlaggedWith(s, "completed")
    \/ /\ outResult'.kind = "failure"
       /\ uploadSessions'[outCalls[s].sid] = uploadSessions[outCalls[s].sid]

\* C29: uploadYouTubeChunk: a 308 response marks the chunk uploaded, sets
\* status uploading and returns success; a 200 or 201 response marks the chunk
\* uploaded, sets status completed and returns success; any other response
\* returns failure and leaves the chunk flag as it was.
C29_ResumablePutOutcome ==
  [][\A s \in OutSlots :
       /\ C29_PutAnswered(s)
       /\ YouTubeStep(s, "json") => outResult'.kind = "success"]_vars

\* the initialize call of slot s ends without returning a session
InitializeFails(s) ==
  /\ outCalls[s].op = "initialize" /\ outCalls'[s] = OutIdle
  /\ outResult'.kind # "session"

\* C30: for the three adapters, no request is out for a call whose token is
\* null; an initialize call that gets a null token or a non-success init
\* response throws, having sent nothing in the first case, and leaves the
\* session table as it was.
C30_InitializeFailureCreatesNothing ==
  [][\A s \in OutSlots :
       /\ outCalls'[s].requests >= 1 => outCalls'[s].accessToken # "null"
       /\ InitializeFails(s) =>
            /\ outResult'.kind = "throw"
            /\ outResult'.error = "token" => outResult'.requests = 0
            /\ outResult'.error = "status" => outResult'.requests = 1
            /\ uploadSessions' = uploadSessions
            /\ nextSession' = nextSession]_vars

\* an initialize call threw for its null token with nothing sent and the
\* table empty
C30_Witness ==
  /\ outResult = OutError("initialize", 0, "throw", 0, "token")
  /\ \A sid \in AllOutIds : ~uploadSessions[sid].exists
  /\ nextSession = 1

\* the sum of the planned sizes of the first k chunks
RECURSIVE SumSizes(_, _)
SumSizes(chunks, k) ==
  IF k = 0 THEN 0 ELSE chunks[k].size + SumSizes(chunks, k - 1)

\* the sessions that were created
Created == {sid \in OutIds : uploadSessions[sid].platform # ""}

\* C31: the chunk list of every session holds ceil(fileSize / CHUNK_SIZE)
\* chunks with indices 0..n-1 in order, all of size CHUNK_SIZE but the last,
\* which has the remainder (1..CHUNK_SIZE); the sizes sum to fileSize; and the
\* byte range a chunk call reads for an index has the planned size.
C31_ChunkPlan ==
  \A sid \in Created :
    LET chunks == uploadSessions[sid].chunks
        size == uploadSessions[sid].fileSize
        n == Len(chunks)
    IN /\ n * CHUNK_SIZE >= size /\ (n - 1) * CHUNK_SIZE < size
       /\ \A i \in 1..n :
            /\ chunks[i].index = i - 1
            /\ i < n => chunks[i].size = CHUNK_SIZE
            /\ chunks[i].size \in 1..CHUNK_SIZE
            /\ byteRangeLength(i - 1, size) = chunks[i].size
       /\ SumSizes(chunks, n) = size

\* a call for the last chunk of a three-chunk session, whose remainder is one
\* block, is reading its byte range
C31_Witness ==
  \E s \in OutSlots :
    /\ outCalls[s].op = "uploadChunk" /\ outCalls[s].pc = "fetch"
    /\ outCalls[s].index = 2
    /\ Len(uploadSessions[outCalls[s].sid].chunks) = 3
    /\ uploadSessions[outCalls[s].sid].chunks[3].size = 1

\* the finalizeUpload of slot s deletes a chunk file in this step
FinalizeDeletes(s) ==
  /\ calls[s].op = "uploadChunk" /\ calls[s].pc = "unlink"
  /\ calls'[s] # calls[s]
  /\ chunkFiles'[calls[s].id] # chunkFiles[calls[s].id]

\* C32: finalizeUpload deletes no chunk file before all totalChunks chunks
\* were written to the output file: when it deletes one, the chunk it has
\* just written is the last.
C32_CleanupAfterFullWrite ==
  [][\A s \in Slots :
       FinalizeDeletes(s) =>
         calls[s].i = chunkInfo[calls[s].id].totalChunks - 1]_vars

\* C33: an uploadId is in the active table only while its progress status is
\* uploading or processing; completed, cancelled and failed sessions are not
\* in the table.
C33_ActiveOnlyNonTerminal ==
  \A id \in activeUploads : status(id) \in {"uploading", "processing"}

\* the finalizeUpload of slot s returns, a cancelUpload of its session having
\* begun while it was suspended
CancelledFinalizeEnds(s) ==
  /\ Finalizing(calls[s], calls[s].id) /\ calls[s].cancelled
  /\ calls'[s] = Idle

\* C34: when cancelUpload ran while the session's finalizeUpload was suspended
\* on I/O, the status the finalizeUpload leaves is cancelled (the rest of the
\* cancel does not write it), and it creates no upload record once the cancel
\* has removed the session's directory.
C34_CancelVersusFinalize ==
  [][\A s \in Slots :
       CancelledFinalizeEnds(s) =>
         /\ uploadProgress'[calls[s].id].status = "cancelled"
         /\ calls[s].id \notin dirs =>
              storageUploads'[calls[s].id] = storageUploads[calls[s].id]]_vars

\* every chunk of the session's list is flagged uploaded
AllUploaded(sid) ==
  \A i \in 1..Len(uploadSessions[sid].chunks) :
    uploadSessions[sid].chunks[i].uploaded

\* C35: a TikTok session all of whose chunks were uploaded successfully has
\* the status completed.
C35_TikTokCompletion ==
  \A sid \in Created :
    (/\ uploadSessions[sid].platform = "tiktok"
     /\ uploadSessions[sid].chunks # <<>>
     /\ AllUploaded(sid))
      => uploadSessions[sid].status = "completed"

\* C36: an outbound session whose status is completed has every chunk of its
\* list flagged uploaded.
C36_CompletedImpliesAllUploaded ==
  \A sid \in Created :
    uploadSessions[sid].status = "completed" => AllUploaded(sid)

\* C37: uploadXChunk and finalizeXUpload ask the token provider for the
\* token of the userId that was passed to initializeXUpload when the session
\* was created.
C37_PerUserToken ==
  \A s \in OutSlots :
    (outCalls[s].op \in {"uploadChunk", "finalize"} /\ outCalls[s].pc = "token")
      => outCalls[s].tokenUser = uploadSessions[outCalls[s].sid].owner

\* the indices of the session's chunks that are flagged uploaded
Flagged(sid) ==
  {i \in 0..(Len(uploadSessions[sid].chunks) - 1) :
     uploadSessions[sid].chunks[i + 1].uploaded}

\* the sum of the planned byte ranges of a set of chunk indices
RECURSIVE PlannedBytes(_, _)
PlannedBytes(S, fileSize) ==
  IF S = {} THEN 0
  ELSE LET i == CHOOSE x \in S : TRUE
       IN byteRangeLength(i, fileSize) + PlannedBytes(S \ {i}, fileSize)

\* the sessions in the table
InTable == {sid \in OutIds : uploadSessions[sid].exists}

\* what getUploadProgress reports for a session agrees with its chunk flags
ProgressAgrees(sid) ==
  LET report == getUploadProgress(sid) IN
  /\ report.totalChunks = Len(uploadSessions[sid].chunks)
  /\ report.uploadedChunks = Cardinality(Flagged(sid))
  /\ report.bytesUploaded = PlannedBytes(Flagged(sid), uploadSessions[sid].fileSize)
  /\ report.totalBytes = uploadSessions[sid].fileSize
  /\ 0 <= report.bytesUploaded /\ report.bytesUploaded <= report.totalBytes
  /\ report.bytesUploaded = report.totalBytes <=> AllUploaded(sid)

\* the chunk call of slot s gets a success response in this step
ChunkAcknowledged(s) ==
  /\ outCalls[s].op = "uploadChunk" /\ outCalls[s].pc = "fetch"
  /\ \/ outCalls'[s] = OutIdle /\ outResult'.kind = "success"
     \/ outCalls'[s].pc = "json"

\* the flags of a session change only by a success response to a chunk call
\* of the index; a success for a chunk already flagged changes no report
FlagsFollowAcknowledgements(sid) ==
  /\ \A i \in Flagged(sid)' \ Flagged(sid) :
       \E s \in OutSlots :
         /\ ChunkAcknowledged(s)
         /\ outCalls[s].sid = sid /\ outCalls[s].index = i
  /\ Flagged(sid) \subseteq Flagged(sid)'
  /\ \A s \in OutSlots :
       (/\ ChunkAcknowledged(s) /\ outCalls[s].sid = sid
        /\ outCalls[s].index \in Flagged(sid))
         => getUploadProgress(sid)' = getUploadProgress(sid)

\* C38: getUploadProgress reports, for every session of the table, the number
\* of chunks that got a success response and the sum of their planned sizes,
\* with 0 <= bytesUploaded <= totalBytes and equality exactly when all chunks
\* are uploaded; a chunk is flagged only by a success response for its index,
\* and a success for a chunk already flagged changes nothing in the report.
C38_OutboundProgress ==
  /\ [](\A sid \in InTable : ProgressAgrees(sid))
  /\ [][\A sid \in InTable : FlagsFollowAcknowledgements(sid)]_vars

\* two of the three chunks of a session are uploaded: the report is strictly
\* between nothing and everything
C38_Witness ==
  \E sid \in InTable :
    /\ Len(uploadSessions[sid].chunks) = 3 /\ Flagged(sid) = {0, 2}
    /\ getUploadProgress(sid).bytesUploaded = CHUNK_SIZE + 1
    /\ outResult.kind = "success"

\* the uploadChunk call of slot s takes the step in which fs.writeFile settles
WriteSettles(s) ==
  /\ calls[s].op = "uploadChunk" /\ calls[s].pc = "writeFile"
  /\ calls'[s] # calls[s]

\* the bookkeeping of the session is as before and no finalizeUpload began
BookkeepingUnchanged(id) ==
  /\ chunkInfo'[id].uploadedChunks = chunkInfo[id].uploadedChunks
  /\ uploadProgress'[id] = uploadProgress[id]
  /\ finalizeStarts' = finalizeStarts
  /\ acceptedSet' = acceptedSet

\* C39: when fs.writeFile of the chunk fails (here visibly: the session's
\* directory does not exist), uploadChunk answers 500; and an uploadChunk that
\* answers 500 for its write leaves uploadedChunks, bytesUploaded, progress,
\* eta and status unchanged, starts no finalizeUpload and is over.
C39_WriteFailureNoBookkeeping ==
  [][\A s \in Slots :
       WriteSettles(s) =>
         /\ calls[s].id \notin dirs =>
              lastResp' = Resp("uploadChunk", calls[s].id, 500)
         /\ lastResp'.code = 500 =>
              /\ BookkeepingUnchanged(calls[s].id)
              /\ calls'[s] = Idle]_vars

\* a chunk of a live session was refused with 500 and nothing is counted
C39_Witness ==
  /\ lastResp = Resp("uploadChunk", 1, 500)
  /\ 1 \in activeUploads /\ status(1) = "uploading"
  /\ chunkInfo[1].uploadedChunks = {} /\ uploadProgress[1].bytesUploaded = 0
  /\ finalizeStarts[1] = 0

\* the chunk call of slot s has passed the checks that precede its requests
PastChecks(s) ==
  /\ outCalls[s].op = "uploadChunk"
  /\ outCalls[s].pc \in {"read", "fetch", "json"}

\* C40: an upload*Chunk call for an unknown sessionId, for a session of
\* another platform or for an index outside 0..chunks.length-1 never gets past
\* its checks (so it sends nothing); it returns a failure result with no
\* request sent and no session's status, chunk flags or table entry changed.
C40_PreconditionFailureNoEffect ==
  /\ [](\A s \in OutSlots :
          /\ outCalls[s].op = "uploadChunk" =>
               uploadSessions[outCalls[s].sid].platform = outCalls[s].platform
          /\ PastChecks(s) =>
               outCalls[s].index \in
                 0..(Len(uploadSessions[outCalls[s].sid].chunks) - 1)
          /\ outCalls[s].op = "uploadChunk" /\ outCalls[s].requests >= 1
               => PastChecks(s))
  /\ [][(outResult'.op = "uploadChunk"
           /\ outResult'.error \in {"session", "chunk"}) =>
          /\ outResult'.kind = "failure" /\ outResult'.requests = 0
          /\ uploadSessions' = uploadSessions
          /\ remoteNext' = remoteNext]_vars

\* uploadXChunk for an index outside the chunk list of an existing X session
\* returned its failure after the token came
C40_Witness ==
  /\ outResult.op = "uploadChunk" /\ outResult.error = "chunk"
  /\ outResult.sid \in InTable
  /\ uploadSessions[outResult.sid].platform = "twitter"
  /\ uploadSessions[outResult.sid].status = "initialized"

====
